---- MODULE Spec2Model ----
(***************************************************************************)
(* Hybrid agentic RAG: application startup (src/agent.py:122-139) with     *)
(* Ingestion (src/ingestion.py) and VectorDB (src/vector_store.py) run by  *)
(* several application instances against one shared Qdrant collection,     *)
(* and the search_documents tool (src/agent.py:65-119) inside the agent's  *)
(* conversational turn.                                                    *)
(***************************************************************************)
EXTENDS Integers, Sequences, FiniteSets, TLC

(* ------------------------------ bounds -------------------------------- *)
\* application instances started against the same collection
NInst == 2
\* write batches one create_index pass needs for the loaded documents
NBatches == 2
\* largest accepted top_k the serving specification draws
MaxTopK == 3
\* tool invocations the generation step may make in one turn
MaxCalls == 2

(* ------------------------- program constants -------------------------- *)
TopKMin == 1
TopKMax == 50
AppTopK == 8

Inst == 1..NInst
ServeInst == 1

(* ------------------------------ values -------------------------------- *)
\* os.getenv: None, the empty string, or a non-empty string
EnvVals == {"unset", "empty", "set"}

\* a directory entry: its name starts with '.', and entry.is_file()
Entry == [hidden : BOOLEAN, is_file : BOOLEAN]
VisibleFile == [hidden |-> FALSE, is_file |-> TRUE]
HiddenFile == [hidden |-> TRUE, is_file |-> TRUE]
VisibleDir == [hidden |-> FALSE, is_file |-> FALSE]
EntryKinds == {VisibleFile, HiddenFile, VisibleDir}
Paths ==
  {[is_dir |-> FALSE, entries |-> {}]}
    \cup {[is_dir |-> TRUE, entries |-> es] : es \in SUBSET EntryKinds}

CredMsg == "Qdrant credentials not found."
NotDirMsg == "is not a valid directory."
NoDataMsg == "does not contain any data to ingest."
IngestErr == "Error during ingestion"
IndexErr == "Failed to create index"
LoadErr == "Failed to load index"
ValidationErr == "top_k validation error"

\* metadata.get("file_name", ...) finds no key / finds a list value
Absent == "<no file_name key>"
Unhashable == "<list value>"

(* ----------------------------- variables ------------------------------ *)
VARIABLES
  env,            \* QDRANT_API and QDRANT_API_KEY of the deployment
  dataDir,        \* the "data/" path on disk
  collection,     \* the Qdrant collection "Hybrid_RAG": exists, records
  pc,             \* each instance's position in the module-level startup
  error,          \* message of the exception that ended an instance's startup
  found,          \* what collection_exists returned to the instance
  docsRead,       \* the instance ran SimpleDirectoryReader.load_data
  indexCalls,     \* create_index invocations by the instance
  written,        \* batches the instance's create_index pass has written
  complete,       \* some create_index pass returned successfully
  partialFailure, \* some create_index pass raised after writing a batch
  sawPartial,     \* the instance started after such a failure
  top_k_arg,      \* the top_k handed to RAGDependencies
  top_k,          \* deps.top_k of the instance's web app (0: no app)
  turn,           \* agent loop position of the serving instance
  calls,          \* search_documents invocations requested in this turn
  returned,       \* search_documents invocations returned in this turn
  toolResult,     \* the string the last invocation returned, as tokens
  raised,         \* an exception left search_documents
  lastFail,       \* what the backend did in the last invocation
  lastNodes,      \* response.source_nodes of the last invocation
  candidates,     \* distinct hits of both legs in the last invocation
  answer,         \* the final answer of the turn
  prompt          \* the system instruction the generation step consults

startupVars ==
  <<env, dataDir, collection, pc, error, found, docsRead, indexCalls,
    written, complete, partialFailure, sawPartial, top_k_arg, top_k>>
turnVars ==
  <<turn, calls, returned, toolResult, raised, lastFail, lastNodes,
    candidates, answer, prompt>>
vars == <<startupVars, turnVars>>

NoFail == [kind |-> "none", msg |-> ""]
NoAnswer == [given |-> FALSE, unavailable |-> FALSE, cites |-> FALSE]

(* ------------------------ src/ingestion.py ---------------------------- *)
\* if not qdrant_url or not qdrant_key: raise ValueError(...)
IngestionCredsOKKeyOnly(e) == e.key = "set"
IngestionCredsOK(e) == e.url = "set" /\ e.key = "set"

\* has_files = any(entry.is_file() for entry in iterdir()
\*                 if not entry.name.startswith('.'))
HasFilesCountsHidden(p) == \E en \in p.entries : en.is_file
HasFiles(p) == \E en \in p.entries : ~en.hidden /\ en.is_file

\* _validate_path: "ok" or the message of the typer.BadParameter raised
ValidatePath(p) ==
  IF ~p.is_dir THEN NotDirMsg
  ELSE IF ~HasFiles(p) THEN NoDataMsg
  ELSE "ok"

(* ----------------------- src/vector_store.py -------------------------- *)
VectorDBCredsOK(e) == e.url = "set" /\ e.key = "set"

\* the node written for batch b of the loaded documents
\* (SimpleDirectoryReader always sets file_name)
DocNode(b) ==
  [file_name |-> IF b = 1 THEN "a.txt" ELSE "b.txt", text |-> "chunk"]

(* -------------------------- src/agent.py ------------------------------ *)
\* if not vector_store.client.collection_exists(...): create_index(...)
ShouldIndexAlways(f) == TRUE
ShouldIndex(f) == f = "absent"

\* RAGDependencies.top_k: Field(default=5, ge=1, le=50)
ValidTopK(k) == k >= TopKMin /\ k <= TopKMax

Fail(i, msg) ==
  /\ pc' = [pc EXCEPT ![i] = "failed"]
  /\ error' = [error EXCEPT ![i] = msg]

\* ingestor = Ingestion(path="data/")
IngestionInit(i) ==
  /\ pc[i] = "start"
  /\ sawPartial' = [sawPartial EXCEPT ![i] = partialFailure]
  /\ IF ~IngestionCredsOK(env) THEN Fail(i, CredMsg)
     ELSE IF ValidatePath(dataDir) # "ok" THEN Fail(i, ValidatePath(dataDir))
     ELSE pc' = [pc EXCEPT ![i] = "ingestor"] /\ UNCHANGED error
  /\ UNCHANGED <<env, dataDir, collection, found, docsRead, indexCalls,
                 written, complete, partialFailure, top_k_arg, top_k>>
  /\ UNCHANGED turnVars

\* documents = ingestor.ingest(): load_data returns, or raises and the
\* exception is re-raised
Ingest(i) ==
  /\ pc[i] = "ingestor"
  /\ docsRead' = [docsRead EXCEPT ![i] = TRUE]
  /\ \E ok \in BOOLEAN :
       IF ok THEN pc' = [pc EXCEPT ![i] = "documents"] /\ UNCHANGED error
       ELSE Fail(i, IngestErr)
  /\ UNCHANGED <<env, dataDir, collection, found, indexCalls, written,
                 complete, partialFailure, sawPartial, top_k_arg, top_k>>
  /\ UNCHANGED turnVars

\* vector_store = VectorDB()
VectorDBInit(i) ==
  /\ pc[i] = "documents"
  /\ IF ~VectorDBCredsOK(env) THEN Fail(i, CredMsg)
     ELSE pc' = [pc EXCEPT ![i] = "vector_store"] /\ UNCHANGED error
  /\ UNCHANGED <<env, dataDir, collection, found, docsRead, indexCalls,
                 written, complete, partialFailure, sawPartial, top_k_arg,
                 top_k>>
  /\ UNCHANGED turnVars

\* the collection_exists call and the branch on it; create_index is
\* entered here and writes in later steps
CheckCollection(i) ==
  /\ pc[i] = "vector_store"
  /\ LET f == IF collection.exists THEN "exists" ELSE "absent" IN
       /\ found' = [found EXCEPT ![i] = f]
       /\ IF ShouldIndex(f)
          THEN /\ pc' = [pc EXCEPT ![i] = "indexing"]
               /\ indexCalls' = [indexCalls EXCEPT ![i] = @ + 1]
          ELSE /\ pc' = [pc EXCEPT ![i] = "index_ready"]
               /\ UNCHANGED indexCalls
  /\ UNCHANGED <<env, dataDir, collection, error, docsRead, written,
                 complete, partialFailure, sawPartial, top_k_arg, top_k>>
  /\ UNCHANGED turnVars

\* VectorStoreIndex.from_documents: one batch reaches the backend; the
\* first write creates the collection
WriteBatch(i) ==
  /\ pc[i] = "indexing"
  /\ written[i] < NBatches
  /\ collection' =
       [exists |-> TRUE,
        records |-> Append(collection.records, DocNode(written[i] + 1))]
  /\ written' = [written EXCEPT ![i] = @ + 1]
  /\ UNCHANGED <<env, dataDir, pc, error, found, docsRead, indexCalls,
                 complete, partialFailure, sawPartial, top_k_arg, top_k>>
  /\ UNCHANGED turnVars

\* create_index: except Exception as e: log; raise
CreateIndexFail(i) ==
  /\ pc[i] = "indexing"
  /\ written[i] < NBatches
  /\ Fail(i, IndexErr)
  /\ partialFailure' = (partialFailure \/ written[i] > 0)
  /\ UNCHANGED <<env, dataDir, collection, found, docsRead, indexCalls,
                 written, complete, sawPartial, top_k_arg, top_k>>
  /\ UNCHANGED turnVars

\* create_index returns after every batch is written
CreateIndexReturn(i) ==
  /\ pc[i] = "indexing"
  /\ written[i] = NBatches
  /\ pc' = [pc EXCEPT ![i] = "index_ready"]
  /\ complete' = TRUE
  /\ UNCHANGED <<env, dataDir, collection, error, found, docsRead,
                 indexCalls, written, partialFailure, sawPartial, top_k_arg,
                 top_k>>
  /\ UNCHANGED turnVars

\* index = vector_store.get_index(): returns, or logs and re-raises
GetIndex(i) ==
  /\ pc[i] = "index_ready"
  /\ \E ok \in BOOLEAN :
       IF ok THEN pc' = [pc EXCEPT ![i] = "index"] /\ UNCHANGED error
       ELSE Fail(i, LoadErr)
  /\ UNCHANGED <<env, dataDir, collection, found, docsRead, indexCalls,
                 written, complete, partialFailure, sawPartial, top_k_arg,
                 top_k>>
  /\ UNCHANGED turnVars

\* app = agent.to_web(deps=RAGDependencies(index=index, top_k=...))
AppCreate(i) ==
  /\ pc[i] = "index"
  /\ IF ValidTopK(top_k_arg)
     THEN /\ pc' = [pc EXCEPT ![i] = "serving"]
          /\ top_k' = [top_k EXCEPT ![i] = top_k_arg]
          /\ UNCHANGED error
     ELSE Fail(i, ValidationErr) /\ UNCHANGED top_k
  /\ UNCHANGED <<env, dataDir, collection, found, docsRead, indexCalls,
                 written, complete, partialFailure, sawPartial, top_k_arg>>
  /\ UNCHANGED turnVars

(* --------------------------- src/prompt.py ---------------------------- *)
\* the rules of SYSTEM_PROMPT, one tag per bullet
SYSTEM_PROMPT_NoRetrieveRule ==
  {"base_strictly_on_retrieved_context", "no_prior_knowledge",
   "state_not_available_if_context_lacks_answer", "never_fabricate",
   "cite_sources", "no_documents_found_cannot_answer"}
SYSTEM_PROMPT ==
  {"always_retrieve_before_answering", "base_strictly_on_retrieved_context",
   "no_prior_knowledge", "state_not_available_if_context_lacks_answer",
   "never_fabricate", "cite_sources", "no_documents_found_cannot_answer"}

(* ------------------ src/agent.py: search_documents -------------------- *)
\* a returned string is a sequence of tokens [tag, val]
Tok(t, v) == [tag |-> t, val |-> v]
Sentinel == <<Tok("lit", "NO_RELEVANT_CONTEXT_FOUND")>>
ErrPrefix == Tok("lit", "ERROR_RETRIEVING_CONTEXT: ")
ContextHead == Tok("lit", "RETRIEVED CONTEXT:\n\n")
SourcesHead == Tok("lit", "\n\nSOURCES:\n")
Newline == Tok("lit", "\n")

ErrMsgs == {"connection refused", "timed out"}
UnhashableMsg == "unhashable type: 'list'"

\* str(i) of the enumerate index
NumStr(i) ==
  CASE i = 1 -> "1" [] i = 2 -> "2" [] i = 3 -> "3" [] i = 4 -> "4"
    [] OTHER -> "n"
\* f"Document {i}"
DocumentLabel(i) ==
  CASE i = 1 -> "Document 1" [] i = 2 -> "Document 2"
    [] i = 3 -> "Document 3" [] i = 4 -> "Document 4"
    [] OTHER -> "Document n"

Range(s) == {s[p] : p \in DOMAIN s}

RECURSIVE JoinWith(_, _)
\* sep.join(seqs)
JoinWith(seqs, sep) ==
  IF seqs = <<>> THEN <<>>
  ELSE IF Len(seqs) = 1 THEN seqs[1]
  ELSE seqs[1] \o <<sep>> \o JoinWith(Tail(seqs), sep)

RECURSIVE KeepLastAcc(_, _)
KeepLastAcc(s, acc) ==
  IF s = <<>> THEN acc
  ELSE IF Head(s) \in Range(Tail(s)) THEN KeepLastAcc(Tail(s), acc)
  ELSE KeepLastAcc(Tail(s), Append(acc, Head(s)))
DedupKeepLast(s) == KeepLastAcc(s, <<>>)

RECURSIVE DedupAcc(_, _)
DedupAcc(s, acc) ==
  IF s = <<>> THEN acc
  ELSE IF Head(s) \in Range(acc) THEN DedupAcc(Tail(s), acc)
  ELSE DedupAcc(Tail(s), Append(acc, Head(s)))
\* list(dict.fromkeys(sources))
Dedup(s) == DedupAcc(s, <<>>)

\* source = metadata.get("file_name", f"Document {i}")
Source(node, i) ==
  IF node.file_name = Absent THEN DocumentLabel(i) ELSE node.file_name

\* dict.fromkeys raises TypeError on a key that is a list
FormatRaises(nodes) == \E p \in DOMAIN nodes : nodes[p].file_name = Unhashable

\* as_query_engine(vector_store_query_mode="hybrid",
\*                 similarity_top_k=top_k, sparse_top_k=top_k)
QueryEngineWideDense(k) ==
  [mode |-> "hybrid", similarity_top_k |-> k + 1, sparse_top_k |-> k]
QueryEngine(k) ==
  [mode |-> "hybrid", similarity_top_k |-> k, sparse_top_k |-> k]

\* lines 87-115: one block per node, then the deduplicated source list
ContextBlock(nodes) ==
  LET part(i) ==
        <<Tok("header", NumStr(i)), Tok("file", Source(nodes[i], i)),
          Tok("text", nodes[i].text)>>
      context_parts == [i \in DOMAIN nodes |-> part(i)]
      sources == Dedup([i \in DOMAIN nodes |-> Source(nodes[i], i)])
      items == [p \in DOMAIN sources |-> <<Tok("item", sources[p])>>]
  IN <<ContextHead>> \o JoinWith(context_parts, Newline)
       \o <<SourcesHead>> \o JoinWith(items, Newline)

\* the body after the query returned, when nothing raises:
\* if not response.source_nodes: return "NO_RELEVANT_CONTEXT_FOUND"
AssembleNoEmptyCheck(nodes) == ContextBlock(nodes)
Assemble(nodes) ==
  IF nodes = <<>> THEN Sentinel ELSE ContextBlock(nodes)

Caught(msg) == [ret |-> <<ErrPrefix, Tok("msg", msg)>>, raised |-> FALSE]

\* the try block and its except Exception handler. outcome is what the
\* backend does: "engine" (as_query_engine raises), "query" (query raises)
\* or "ok" (query returns nodes)
SearchDocumentsTryAroundQueryOnly(outcome, msg, nodes) ==
  IF outcome # "ok" THEN Caught(msg)
  ELSE IF nodes # <<>> /\ FormatRaises(nodes)
    THEN [ret |-> <<>>, raised |-> TRUE]
  ELSE [ret |-> Assemble(nodes), raised |-> FALSE]
SearchDocuments(outcome, msg, nodes) ==
  IF outcome # "ok" THEN Caught(msg)
  ELSE IF nodes # <<>> /\ FormatRaises(nodes) THEN Caught(UnhashableMsg)
  ELSE [ret |-> Assemble(nodes), raised |-> FALSE]

(* ------------------- the hybrid retriever (spec 4.3) ------------------ *)
Min(a, b) == IF a < b THEN a ELSE b

\* the hit lists one leg may return: distinct record positions, at most
\* limit of them
Legs(n, limit) ==
  UNION {{s \in [1..m -> 1..n] : \A p, q \in 1..m : p # q => s[p] # s[q]}
           : m \in 0..Min(limit, n)}

\* both ranked lists fused into one, truncated to the engine's top_k
HybridQuery(engine, dense, sparse) ==
  LET fused == dense \o SelectSeq(sparse, LAMBDA h : h \notin Range(dense))
  IN SubSeq(fused, 1, Min(Len(fused), engine.similarity_top_k))

(* ------------------- the agent loop (spec 4.5) ------------------------ *)
\* a user message arrives at the web app
UserTurn ==
  /\ pc[ServeInst] = "serving"
  /\ turn = "Idle"
  /\ turn' = "AwaitingToolDecision"
  /\ prompt' = SYSTEM_PROMPT
  /\ calls' = 0
  /\ returned' = 0
  /\ toolResult' = <<>>
  /\ lastFail' = NoFail
  /\ lastNodes' = <<>>
  /\ candidates' = 0
  /\ answer' = NoAnswer
  /\ UNCHANGED raised
  /\ UNCHANGED startupVars

\* the generation step requests the tool
ModelCallsTool ==
  /\ turn \in {"AwaitingToolDecision", "AwaitingFinalAnswer"}
  /\ calls < MaxCalls
  /\ turn' = "ToolInvoked"
  /\ calls' = calls + 1
  /\ toolResult' = <<>>
  /\ lastFail' = NoFail
  /\ lastNodes' = <<>>
  /\ candidates' = 0
  /\ UNCHANGED <<returned, raised, answer, prompt>>
  /\ UNCHANGED startupVars

\* one run of the tool function against the instance's index
search_documents ==
  /\ turn = "ToolInvoked"
  /\ LET engine == QueryEngine(top_k[ServeInst])
         n == Len(collection.records)
     IN \E outcome \in {"engine", "query", "ok"} :
        \E msg \in (IF outcome = "ok" THEN {""} ELSE ErrMsgs) :
        \E dense \in (IF outcome = "ok"
                        THEN Legs(n, engine.similarity_top_k) ELSE {<<>>}) :
        \E sparse \in (IF outcome = "ok"
                         THEN Legs(n, engine.sparse_top_k) ELSE {<<>>}) :
          LET hits == HybridQuery(engine, dense, sparse)
              nodes == [p \in DOMAIN hits |-> collection.records[hits[p]]]
              r == SearchDocuments(outcome, msg, nodes)
          IN /\ toolResult' = r.ret
             /\ raised' = r.raised
             /\ turn' = IF r.raised THEN "Crashed" ELSE "AwaitingFinalAnswer"
             /\ lastNodes' = nodes
             /\ candidates' = Cardinality(Range(dense) \cup Range(sparse))
             /\ lastFail' = [kind |-> outcome, msg |-> msg]
  /\ returned' = returned + 1
  /\ UNCHANGED <<calls, answer, prompt>>
  /\ UNCHANGED startupVars

\* the generation step produces the final text
ModelAnswers ==
  /\ turn \in {"AwaitingToolDecision", "AwaitingFinalAnswer"}
  /\ turn' = "Done"
  /\ \E u, c \in BOOLEAN :
       answer' = [given |-> TRUE, unavailable |-> u, cites |-> c]
  /\ UNCHANGED <<calls, returned, toolResult, raised, lastFail, lastNodes,
                 candidates, prompt>>
  /\ UNCHANGED startupVars

\* the response is sent; the app waits for the next message
EndTurn ==
  /\ turn = "Done"
  /\ turn' = "Idle"
  /\ UNCHANGED <<calls, returned, toolResult, raised, lastFail, lastNodes,
                 candidates, answer, prompt>>
  /\ UNCHANGED startupVars

(* --------------------------- specification ---------------------------- *)
TurnInit ==
  /\ turn = "Idle"
  /\ calls = 0
  /\ returned = 0
  /\ toolResult = <<>>
  /\ raised = FALSE
  /\ lastFail = NoFail
  /\ lastNodes = <<>>
  /\ candidates = 0
  /\ answer = NoAnswer
  /\ prompt = {}

\* a fresh deployment: no collection yet, no instance started
Init ==
  /\ env \in [url : EnvVals, key : EnvVals]
  /\ dataDir \in Paths
  /\ collection = [exists |-> FALSE, records |-> <<>>]
  /\ pc = [i \in Inst |-> "start"]
  /\ error = [i \in Inst |-> ""]
  /\ found = [i \in Inst |-> "none"]
  /\ docsRead = [i \in Inst |-> FALSE]
  /\ indexCalls = [i \in Inst |-> 0]
  /\ written = [i \in Inst |-> 0]
  /\ complete = FALSE
  /\ partialFailure = FALSE
  /\ sawPartial = [i \in Inst |-> FALSE]
  /\ top_k_arg = AppTopK
  /\ top_k = [i \in Inst |-> 0]
  /\ TurnInit

Next ==
  \E i \in Inst :
    \/ IngestionInit(i)
    \/ Ingest(i)
    \/ VectorDBInit(i)
    \/ CheckCollection(i)
    \/ WriteBatch(i)
    \/ CreateIndexFail(i)
    \/ CreateIndexReturn(i)
    \/ GetIndex(i)
    \/ AppCreate(i)

Spec == Init /\ [][Next]_vars

(* ----------------- serving specification: one instance ---------------- *)
\* what a collection found existing may hold: it is read as it is, whoever
\* wrote it, so a payload may lack file_name or carry a list there
Corpus ==
  <<[file_name |-> "a.txt", text |-> "t1"],
    [file_name |-> "a.txt", text |-> "t2"],
    [file_name |-> Absent, text |-> "t3"],
    [file_name |-> "Document 2", text |-> "t4"],
    [file_name |-> Unhashable, text |-> "t5"]>>

TopKInputs == (0..MaxTopK) \cup {TopKMax + 1}

\* an instance that found the collection existing and loaded its index,
\* about to build its dependencies with the top_k it is given
InitServe ==
  /\ env = [url |-> "set", key |-> "set"]
  /\ dataDir = [is_dir |-> TRUE, entries |-> {VisibleFile}]
  /\ \E n \in 0..Len(Corpus) :
       collection = [exists |-> TRUE, records |-> SubSeq(Corpus, 1, n)]
  /\ pc = [i \in Inst |-> IF i = ServeInst THEN "index" ELSE "start"]
  /\ error = [i \in Inst |-> ""]
  /\ found = [i \in Inst |-> IF i = ServeInst THEN "exists" ELSE "none"]
  /\ docsRead = [i \in Inst |-> i = ServeInst]
  /\ indexCalls = [i \in Inst |-> 0]
  /\ written = [i \in Inst |-> 0]
  /\ complete = FALSE
  /\ partialFailure = FALSE
  /\ sawPartial = [i \in Inst |-> FALSE]
  /\ top_k_arg \in TopKInputs
  /\ top_k = [i \in Inst |-> 0]
  /\ TurnInit

ServeNext ==
  \/ AppCreate(ServeInst)
  \/ UserTurn
  \/ ModelCallsTool
  \/ search_documents
  \/ ModelAnswers
  \/ EndTurn

ServeSpec == InitServe /\ [][ServeNext]_vars

(* ------------------------------ claims -------------------------------- *)
CredsMissing == env.url # "set" \/ env.key # "set"
NoVisibleFile == \A en \in dataDir.entries : en.hidden \/ ~en.is_file
Headers == SelectSeq(toolResult, LAMBDA t : t.tag = "header")
Items == SelectSeq(toolResult, LAMBDA t : t.tag = "item")
IsContext == Len(toolResult) > 0 /\ toolResult[1] = ContextHead
IsError == Len(toolResult) > 0 /\ toolResult[1] = ErrPrefix
SomeUnhashable ==
  \E p \in DOMAIN lastNodes : lastNodes[p].file_name = Unhashable
\* the message of the failure the last invocation met, "" when none
FailureMsg ==
  IF lastFail.kind \in {"engine", "query"} THEN lastFail.msg
  ELSE IF lastFail.kind = "ok" /\ SomeUnhashable THEN UnhashableMsg
  ELSE ""

\* C1: no exception leaves search_documents; whenever building the query
\* engine, running the query or formatting the results failed, the call
\* returned "ERROR_RETRIEVING_CONTEXT: " followed by the failure's message,
\* and the turn goes on to a textual answer.
C1_ToolNeverRaises ==
  /\ ~raised
  /\ turn # "Crashed"
  /\ FailureMsg # "" =>
       /\ toolResult = <<ErrPrefix, Tok("msg", FailureMsg)>>
       /\ turn \in {"AwaitingFinalAnswer", "Done", "Idle"}
       /\ turn = "AwaitingFinalAnswer" => ENABLED ModelAnswers
       /\ turn \in {"Done", "Idle"} => answer.given
C1_Witness ==
  /\ lastFail.kind = "ok"
  /\ SomeUnhashable
  /\ IsError
  /\ turn = "Done"
  /\ answer.given

\* C2 as stated: zero result nodes give exactly the sentinel, and every
\* non-empty result gives a RETRIEVED CONTEXT block.
C2_Original ==
  lastFail.kind = "ok" =>
    /\ lastNodes = <<>> => toolResult = Sentinel
    /\ toolResult = Sentinel => lastNodes = <<>>
    /\ lastNodes # <<>> => IsContext

\* C2 amended: the sentinel is returned exactly when the query returned zero
\* result nodes; a non-empty result gives a RETRIEVED CONTEXT block with one
\* SOURCE block per node, or the error string when formatting it raises.
C2_SentinelIffEmpty ==
  /\ toolResult = Sentinel <=> (lastFail.kind = "ok" /\ lastNodes = <<>>)
  /\ (lastFail.kind = "ok" /\ lastNodes # <<>>) =>
       IF SomeUnhashable THEN IsError
       ELSE IsContext /\ Len(Headers) = Len(lastNodes)
C2_Witness ==
  /\ lastFail.kind = "ok"
  /\ lastNodes = <<>>
  /\ toolResult = Sentinel
  /\ Len(collection.records) > 0

\* C3: the emitted SOURCES list holds each label of the result nodes exactly
\* once, in the order of first occurrence; a label is the node's file_name,
\* or "Document i" for the i-th node when it has none.
C3_SourcesDedupFirstOccurrence ==
  IsContext =>
    LET L == [i \in DOMAIN lastNodes |->
                IF lastNodes[i].file_name = Absent THEN DocumentLabel(i)
                ELSE lastNodes[i].file_name]
        S == [p \in DOMAIN Items |-> Items[p].val]
        First(x) ==
          CHOOSE i \in DOMAIN L : L[i] = x /\ \A j \in 1..(i - 1) : L[j] # x
    IN /\ \A p, q \in DOMAIN S : p # q => S[p] # S[q]
       /\ {S[p] : p \in DOMAIN S} = {L[i] : i \in DOMAIN L}
       /\ \A p, q \in DOMAIN S : p < q => First(S[p]) < First(S[q])
C3_Witness ==
  /\ IsContext
  /\ Len(lastNodes) = 3
  /\ Len(Items) = 2
  /\ lastNodes[1].file_name = lastNodes[3].file_name
  /\ lastNodes[1].file_name # lastNodes[2].file_name

\* C4: create_index is invoked only by a startup that found the collection
\* absent, and no step of a startup that found it existing changes the
\* collection.
C4_IndexOnlyWhenAbsent ==
  /\ [](\A i \in Inst : indexCalls[i] > 0 => found[i] = "absent")
  /\ [][\A i \in Inst :
          (found[i] = "exists" /\ pc'[i] # pc[i]) =>
            (collection' = collection /\ indexCalls'[i] = indexCalls[i])]_vars
C4_Witness ==
  \E i \in Inst :
    /\ found[i] = "exists"
    /\ pc[i] = "serving"
    /\ indexCalls[i] = 0
    /\ Len(collection.records) = NBatches

\* C5 as stated: a create_index failure ends that run without a web app,
\* and an instance started after a part-way failure serves only if some
\* indexing pass has completed.
C5_IndexFailureBlocksServing ==
  \A i \in Inst :
    /\ error[i] = IndexErr => (pc[i] = "failed" /\ top_k[i] = 0)
    /\ (sawPartial[i] /\ pc[i] = "serving") => complete

\* C6 as stated: at most one instance runs an indexing pass.
C6_AtMostOneIndexingPass ==
  Cardinality({i \in Inst : indexCalls[i] > 0}) <= 1

\* C7: with QDRANT_API or QDRANT_API_KEY unset or empty, every started
\* instance has failed with "Qdrant credentials not found." and none has
\* read a document, checked or indexed the collection, or created the app.
C7_MissingCredsFailFirst ==
  CredsMissing =>
    /\ ~collection.exists
    /\ \A i \in Inst :
         /\ pc[i] \in {"start", "failed"}
         /\ pc[i] = "failed" => error[i] = CredMsg
         /\ ~docsRead[i]
         /\ found[i] = "none"
         /\ indexCalls[i] = 0
         /\ top_k[i] = 0
C7_Witness ==
  /\ env.url = "set"
  /\ env.key = "empty"
  /\ \E i \in Inst : pc[i] = "failed" /\ error[i] = CredMsg

\* C8 as stated: the path is rejected exactly when it is not a directory,
\* or is a directory that is empty or holds only hidden entries.
C8_Original ==
  \A i \in Inst :
    (IngestionCredsOK(env) /\ pc[i] # "start") =>
      /\ error[i] = NotDirMsg <=> ~dataDir.is_dir
      /\ error[i] = NoDataMsg <=>
           (dataDir.is_dir /\ \A en \in dataDir.entries : en.hidden)
      /\ docsRead[i] => error[i] \notin {NotDirMsg, NoDataMsg}

\* C8 amended: the path is rejected exactly when it is not a directory, or
\* is a directory with no non-hidden regular file (empty, only hidden
\* entries, or only subdirectories); ingest never reads a rejected path.
C8_RejectsExactlyNoVisibleFile ==
  \A i \in Inst :
    (IngestionCredsOK(env) /\ pc[i] # "start") =>
      /\ error[i] = NotDirMsg <=> ~dataDir.is_dir
      /\ error[i] = NoDataMsg <=> (dataDir.is_dir /\ NoVisibleFile)
      /\ docsRead[i] => (dataDir.is_dir /\ ~NoVisibleFile)
      /\ (dataDir.is_dir /\ ~NoVisibleFile) =>
           error[i] \notin {NotDirMsg, NoDataMsg}
C8_Witness ==
  /\ dataDir.is_dir
  /\ dataDir.entries = {VisibleDir, HiddenFile}
  /\ \E i \in Inst : pc[i] = "failed" /\ error[i] = NoDataMsg

\* C9: an app is served only with 1 <= top_k <= 50, and a query served with
\* top_k = k yields at most k result nodes and at most k SOURCE blocks.
C9_AtMostTopK ==
  /\ pc[ServeInst] = "serving" =>
       (top_k[ServeInst] >= 1 /\ top_k[ServeInst] <= 50)
  /\ Len(lastNodes) <= top_k[ServeInst]
  /\ Len(Headers) <= top_k[ServeInst]
C9_Witness ==
  /\ IsContext
  /\ candidates > top_k[ServeInst]
  /\ Len(Headers) = top_k[ServeInst]
  /\ top_k[ServeInst] >= 2

====
